---- MODULE Spec2Model ----
(***************************************************************************)
(* Model of the WRF post-processing pipeline of core/management/commands:  *)
(* postwrf.py (main, process_compressed_weather_data, quantize_data,       *)
(* get_variable_data) and helper.py (get_time_info, clean_invalid_values,  *)
(* extract_var_slice, calculate_relative_humidity, calculate_total_rain,   *)
(* create_compressed_json).                                                *)
(*                                                                         *)
(* Floating values are fixed-point: an integer v stands for v / 1000       *)
(* (milli-units).  NaN, the infinities and finite magnitudes beyond 1e10   *)
(* are symbolic cells.  Integers wider than TLC's are two 16-bit limbs.    *)
(***************************************************************************)
EXTENDS Integers, Sequences, FiniteSets, TLC

\* ------------------------------------------------------------------ bounds
MaxTimes == 11       \* longest time axis of a sampled dataset
GridRows == 1        \* rows of the sampled grid
GridCols == 3        \* columns of the sampled grid
MaxPattern == 3      \* data patterns of the sampled datasets: 0..MaxPattern
QLen == 2            \* length of the arrays given to quantize_data alone

\* ------------------------------------------------------- program constants
BATCH_SIZE == 5
OUTPUT_FORMAT == "json_gz"
VARIABLES_TO_PROCESS == <<"T2", "TSK", "SST", "U10", "V10", "RH", "TOTAL_RAIN">>

Milli == 10^3        \* one unit of a floating value, in the model's fixed point
Limb == 2^16        \* base of the two-limb integers

\* ------------------------------------------------------------ float cells
Num(x) == [k |-> "num", v |-> x]
NaN == [k |-> "nan", v |-> 0]
PosInf == [k |-> "inf", v |-> 1]
NegInf == [k |-> "inf", v |-> -1]
PosHuge == [k |-> "huge", v |-> 1]     \* finite, above 1e10 (e.g. 1e21)
NegHuge == [k |-> "huge", v |-> -1]    \* finite, below -1e10

isnan(c) == c.k = "nan"
isinf(c) == c.k = "inf"

\* c < b and c > b for a bound b given in milli-units (|b| below 1e10);
\* comparisons with NaN are false, as in IEEE arithmetic
Less(c, b) == IF c.k = "num" THEN c.v < b ELSE c.k \in {"inf", "huge"} /\ c.v < 0
Greater(c, b) == IF c.k = "num" THEN c.v > b ELSE c.k \in {"inf", "huge"} /\ c.v > 0

\* ----------------------------------------------------------------- arrays
\* an Option<ndarray>: None, a 2-D plane (rows of cells) or a 3-D level stack
NoData == [none |-> TRUE, rank |-> 0, data |-> <<>>]
\* an ndarray holds its cells: the rows are built once, as tuples
Dense(d) == <<>> \o [i \in 1..Len(d) |-> <<>> \o d[i]]
Arr(d) == [none |-> FALSE, rank |-> 2, data |-> Dense(d)]
Arr3(d) == [none |-> FALSE, rank |-> 3, data |-> <<>> \o [l \in 1..Len(d) |-> Dense(d[l])]]

Shape(d) == <<Len(d), IF Len(d) = 0 THEN 0 ELSE Len(d[1])>>

Map1(F(_), d) == [i \in 1..Len(d) |-> F(d[i])]
Map2(F(_), d) == [i \in 1..Len(d) |-> [j \in 1..Len(d[i]) |-> F(d[i][j])]]
Map3(F(_), d) == [l \in 1..Len(d) |-> Map2(F, d[l])]

\* ------------------------------------------------- two-limb wide integers
W(x) == [hi |-> x \div Limb, lo |-> x % Limb]
WLess(a, b) == a.hi < b.hi \/ (a.hi = b.hi /\ a.lo < b.lo)
\* v * m for 1 <= m <= 1000, without leaving 32 bits
WMul(v, m) ==
  LET a == v \div Limb
      b == v % Limb
  IN  [hi |-> a * m + (b * m) \div Limb, lo |-> (b * m) % Limb]
WClip(x, lo, hi) == IF WLess(x, lo) THEN lo ELSE IF WLess(hi, x) THEN hi ELSE x

\* truncation toward zero, as astype(<integer dtype>) does
TruncDiv(a, b) == IF a >= 0 THEN a \div b ELSE -((-a) \div b)

\* ---------------------------------------------------- VARIABLE_METADATA
MetaNames ==
  {"ALBEDO", "CLDFRA", "EMISS", "P", "PBLH", "QVAPOR", "RAINC", "RAINNC", "SST",
   "T2", "TKE_PBL", "TSK", "U10", "V10", "VEGFRA", "RH", "TOTAL_RAIN"}

MD(s, d, c, u) == [scale |-> s, dtype |-> d, convert_temp |-> c, custom |-> u]

VARIABLE_METADATA ==
  [n \in MetaNames |->
     CASE n \in {"ALBEDO", "CLDFRA", "EMISS", "VEGFRA"} -> MD(10000, "uint16", FALSE, FALSE)
       [] n = "P" -> MD(1, "float32", FALSE, FALSE)
       [] n = "PBLH" -> MD(10, "uint16", FALSE, FALSE)
       [] n = "QVAPOR" -> MD(1000000, "uint32", FALSE, FALSE)
       [] n \in {"RAINC", "RAINNC"} -> MD(100, "uint16", FALSE, FALSE)
       [] n \in {"SST", "T2", "TSK"} -> MD(100, "int16", TRUE, FALSE)
       [] n = "TKE_PBL" -> MD(1000, "uint32", FALSE, FALSE)
       [] n \in {"U10", "V10"} -> MD(100, "int16", FALSE, FALSE)
       [] n \in {"RH", "TOTAL_RAIN"} -> MD(100, "uint16", FALSE, TRUE)]

\* VARIABLE_METADATA.get(var_name, {}) with the .get defaults of quantize_data
MetaOf(var_name) ==
  IF var_name \in MetaNames THEN VARIABLE_METADATA[var_name]
  ELSE MD(1, "float32", FALSE, FALSE)

IsIntDtype(dtype) == dtype \in {"int16", "uint16", "uint32"}

\* np.iinfo(dtype).max and .min
IInfoMax(dtype) ==
  CASE dtype = "int16" -> W(32767)
    [] dtype = "uint16" -> W(65535)
    [] dtype = "uint32" -> [hi |-> 65535, lo |-> 65535]
IInfoMin(dtype) == IF dtype = "int16" THEN W(-32768) ELSE W(0)

\* ------------------------------------------------ clean_invalid_values
InRangeTable(var_name) ==
  var_name \in {"T2", "TSK", "SST", "U10", "V10", "P", "QVAPOR", "RAINC", "RAINNC",
                "PBLH", "CLDFRA", "ALBEDO", "VEGFRA", "EMISS", "TKE_PBL"}

\* valid_ranges[var_name], in milli-units
valid_ranges(var_name) ==
  CASE var_name \in {"T2", "TSK", "SST"} -> <<-150 * Milli, 350 * Milli>>
    [] var_name \in {"U10", "V10"} -> <<-200 * Milli, 200 * Milli>>
    [] var_name = "P" -> <<0, 110000 * Milli>>
    [] var_name = "QVAPOR" -> <<0, 100>>
    [] var_name \in {"RAINC", "RAINNC"} -> <<0, 1000 * Milli>>
    [] var_name = "PBLH" -> <<0, 5000 * Milli>>
    [] var_name \in {"CLDFRA", "ALBEDO", "VEGFRA", "EMISS"} -> <<0, 1100>>
    [] var_name = "TKE_PBL" -> <<0, 100 * Milli>>

\* the mask without its second term
mask_fill_abs(c) == c.k \in {"inf", "huge"}

\* mask_fill = (np.abs(data) > 1e10) | (data < -1e6)
mask_fill(c) == c.k \in {"inf", "huge"} \/ Less(c, -1000000 * Milli)

\* the range mask without its lower bound
CleanCellUpperOnly(c, var_name) ==
  LET c1 == IF mask_fill(c) THEN NaN ELSE c
      c2 == IF InRangeTable(var_name) /\ Greater(c1, valid_ranges(var_name)[2])
            THEN NaN ELSE c1
  IN  IF isinf(c2) THEN NaN ELSE c2

CleanCell(c, var_name) ==
  LET c1 == IF mask_fill(c) THEN NaN ELSE c
      c2 == IF /\ InRangeTable(var_name)
               /\ \/ Less(c1, valid_ranges(var_name)[1])
                  \/ Greater(c1, valid_ranges(var_name)[2])
            THEN NaN ELSE c1
  IN  IF isinf(c2) THEN NaN ELSE c2

clean_invalid_values(data, var_name) ==
  IF data.none THEN NoData
  ELSE LET F(c) == CleanCell(c, var_name)
       IN  IF data.rank = 3 THEN Arr3(Map3(F, data.data)) ELSE Arr(Map2(F, data.data))

\* ------------------------------------------------------- quantize_data
\* trunc(clip(c * scale, min, max)) of one non-NaN cell
ScaleClip(c, scale, dtype) ==
  IF c.k # "num" THEN (IF c.v > 0 THEN IInfoMax(dtype) ELSE IInfoMin(dtype))
  ELSE LET x == IF Milli % scale = 0 THEN W(TruncDiv(c.v, Milli \div scale))
                ELSE WMul(c.v, scale \div Milli)
       IN  WClip(x, IInfoMin(dtype), IInfoMax(dtype))

\* quantize_data with the array pre-filled with the type's minimum
QuantizeCellFillMin(c, var_name) ==
  LET metadata == MetaOf(var_name)
      d == IF metadata.convert_temp /\ c.k = "num" THEN Num(c.v - 273150) ELSE c
  IN  IF IsIntDtype(metadata.dtype)
      THEN IF isnan(d) THEN IInfoMin(metadata.dtype)
           ELSE ScaleClip(d, metadata.scale, metadata.dtype)
      ELSE d

QuantizeCell(c, var_name) ==
  LET metadata == MetaOf(var_name)
      d == IF metadata.convert_temp /\ c.k = "num" THEN Num(c.v - 273150) ELSE c
  IN  IF IsIntDtype(metadata.dtype)
      THEN IF isnan(d) THEN IInfoMax(metadata.dtype)
           ELSE ScaleClip(d, metadata.scale, metadata.dtype)
      ELSE d

\* data is the 1-D array of the valid points
quantize_data(data, var_name) ==
  LET F(c) == QuantizeCell(c, var_name) IN Map1(F, data)

\* --------------------------------------------------------- the dataset
\* A sampled dataset is [pattern, ntime, xtime, stamps, geo]: pattern picks the
\* layout and the values of every variable, ntime is the length of the Time
\* dimension, xtime and stamps say how XTIME and Times are stored, geo which of
\* XLAT and XLONG exist.
SourceVars ==
  <<"XLAT", "XLONG", "T2", "TSK", "SST", "U10", "V10", "QVAPOR", "PSFC", "RAINC", "RAINNC",
    "XTIME">>

VarIndex(name) == CHOOSE i \in 1..Len(SourceVars) : SourceVars[i] = name
IsGeo(name) == name \in {"XLAT", "XLONG"}
LayoutClass(ds, name) == (ds.pattern + VarIndex(name)) % 4

\* var_name in dataset.variables
HasVar(ds, name) ==
  /\ \E i \in 1..Len(SourceVars) : SourceVars[i] = name
  /\ IF IsGeo(name) THEN ~(ds.geo = "nolat" /\ name = "XLAT") /\ ~(ds.geo = "nolon" /\ name = "XLONG")
     ELSE IF name = "XTIME" THEN ds.xtime # "absent"
     ELSE LayoutClass(ds, name) # 3

\* len(var.shape)
VarRank(ds, name) ==
  IF IsGeo(name) THEN (IF ds.pattern % 2 = 0 THEN 3 ELSE 2)
  ELSE IF name = "XTIME" THEN 1          \* XTIME(Time)
  ELSE IF LayoutClass(ds, name) = 2 THEN (IF VarIndex(name) % 2 = 0 THEN 2 ELSE 4)
  ELSE 3

VarLevels(ds, name) == 2
\* the surface_level arguments tried: every level of a variable and one beyond
MaxLevel == 2
VarRows(ds, name) == GridRows
VarCols(ds, name) ==
  IF ~IsGeo(name) /\ LayoutClass(ds, name) = 1 /\ VarIndex(name) % 3 = 1
  THEN GridCols - 1 ELSE GridCols

Samples(name) ==
  CASE name \in {"T2", "TSK", "SST"} ->
         <<Num(300150), NaN, Num(250000), Num(400000), Num(273155), PosHuge, Num(-100000)>>
    [] name \in {"U10", "V10"} ->
         <<Num(5250), Num(-3005), NaN, Num(250000), Num(0), NegHuge, Num(200000)>>
    [] name = "QVAPOR" -> <<Num(10), Num(20), NaN, Num(5), Num(200), Num(15)>>
    [] name = "PSFC" ->
         <<Num(100000000), Num(95000000), NaN, PosHuge, NegHuge, NaN, Num(101325000)>>
    [] name \in {"RAINC", "RAINNC"} ->
         <<Num(0), Num(1500), Num(700000), Num(1000000), Num(2250), NaN, PosHuge>>

\* the stored value var[t, l, i, j] (0-based t and l, 1-based i and j)
RawCell(ds, name, t, l, i, j) ==
  IF name = "XLAT"
  THEN (IF ds.pattern % 3 = 1 /\ j = 1 THEN NaN
        ELSE IF ds.pattern % 3 = 2 /\ j = 2 THEN PosHuge
        ELSE Num(17000 + 10 * i + j))
  ELSE IF name = "XLONG"
  THEN (IF ds.pattern % 3 = 1 /\ j = GridCols THEN NaN ELSE Num(78000 + 10 * i + j))
  ELSE LET s == Samples(name)
       IN  s[((ds.pattern + VarIndex(name) + t + l + i + j) % Len(s)) + 1]

RawPlane(ds, name, t, l) ==
  [i \in 1..VarRows(ds, name) |-> [j \in 1..VarCols(ds, name) |-> RawCell(ds, name, t, l, i, j)]]

\* ---------------------------------------------------- extract_var_slice
\* the slice handed back as it was read, without clean_invalid_values
extract_var_slice_uncleaned(ds, var_name, time_idx, surface_level, all_levels) ==
  LET v == IF HasVar(ds, var_name) THEN VarRank(ds, var_name) ELSE 0
  IN  IF v = 4 /\ time_idx < ds.ntime /\ all_levels
      THEN Arr3([l \in 1..VarLevels(ds, var_name) |-> RawPlane(ds, var_name, time_idx, l - 1)])
      ELSE IF v = 4 /\ time_idx < ds.ntime /\ surface_level < VarLevels(ds, var_name)
      THEN Arr(RawPlane(ds, var_name, time_idx, surface_level))
      ELSE IF v = 3 /\ time_idx < ds.ntime THEN Arr(RawPlane(ds, var_name, time_idx, 0))
      ELSE IF v = 2 THEN Arr(RawPlane(ds, var_name, 0, 0))
      ELSE NoData

\* the slice read from the variable before cleaning; None for an absent variable,
\* an unsupported rank, or an index outside the variable (IndexError, caught)
RawSlice(ds, var_name, time_idx, surface_level, all_levels) ==
  IF ~HasVar(ds, var_name) THEN NoData
  ELSE IF VarRank(ds, var_name) = 4
  THEN (IF time_idx >= ds.ntime \/ (~all_levels /\ surface_level >= VarLevels(ds, var_name))
        THEN NoData
        ELSE IF all_levels
        THEN Arr3([l \in 1..VarLevels(ds, var_name) |-> RawPlane(ds, var_name, time_idx, l - 1)])
        ELSE Arr(RawPlane(ds, var_name, time_idx, surface_level)))
  ELSE IF VarRank(ds, var_name) = 3
  THEN (IF time_idx >= ds.ntime THEN NoData ELSE Arr(RawPlane(ds, var_name, time_idx, 0)))
  ELSE IF VarRank(ds, var_name) = 2
  THEN Arr(RawPlane(ds, var_name, 0, 0))
  ELSE NoData

extract_var_slice(ds, var_name, time_idx, surface_level, all_levels) ==
  clean_invalid_values(RawSlice(ds, var_name, time_idx, surface_level, all_levels), var_name)

\* ------------------------------------------------- calculate_total_rain
AddCell(a, b) == IF a.k = "num" /\ b.k = "num" THEN Num(a.v + b.v) ELSE NaN
\* prev - now, the operands exchanged
SubCellReversed(a, b) == IF a.k = "num" /\ b.k = "num" THEN Num(b.v - a.v) ELSE NaN

SubCell(a, b) == IF a.k = "num" /\ b.k = "num" THEN Num(a.v - b.v) ELSE NaN

\* the difference computed without the tests for None and for the shapes
RainDifferenceUnchecked(rainc_now, rainnc_now, rainc_prev, rainnc_prev) ==
  IF rainc_now.none THEN NoData
  ELSE Arr([i \in 1..Len(rainc_now.data) |->
              [j \in 1..Len(rainc_now.data[i]) |->
                 IF rainnc_now.none \/ rainc_prev.none \/ rainnc_prev.none
                 THEN rainc_now.data[i][j]
                 ELSE SubCell(AddCell(rainc_now.data[i][j], rainnc_now.data[i][j]),
                              AddCell(rainc_prev.data[i][j], rainnc_prev.data[i][j]))]])

\* hourly_rain = (rainc_now + rainnc_now) - (rainc_prev + rainnc_prev), or None
\* when a slice is None or the shapes differ
RainDifference(rainc_now, rainnc_now, rainc_prev, rainnc_prev) ==
  IF rainc_now.none \/ rainnc_now.none \/ rainc_prev.none \/ rainnc_prev.none
  THEN NoData
  ELSE IF \/ Shape(rainc_now.data) # Shape(rainnc_now.data)
          \/ Shape(rainc_now.data) # Shape(rainc_prev.data)
          \/ Shape(rainnc_now.data) # Shape(rainnc_prev.data)
  THEN NoData
  ELSE Arr([i \in 1..Len(rainc_now.data) |->
              [j \in 1..Len(rainc_now.data[i]) |->
                 SubCell(AddCell(rainc_now.data[i][j], rainnc_now.data[i][j]),
                         AddCell(rainc_prev.data[i][j], rainnc_prev.data[i][j]))]])

\* the body of calculate_total_rain once the four slices are extracted
HourlyRain(rainc_now, rainnc_now, rainc_prev, rainnc_prev) ==
  clean_invalid_values(RainDifference(rainc_now, rainnc_now, rainc_prev, rainnc_prev),
                       "HOURLY_RAIN")

\* the function without `if time_idx == 0: return None`; var[-1] is the last step
PrevIndex(ds, time_idx) ==
  IF time_idx > 0 THEN time_idx - 1 ELSE IF ds.ntime > 0 THEN ds.ntime - 1 ELSE 0
calculate_total_rain_unguarded(ds, time_idx) ==
  HourlyRain(extract_var_slice(ds, "RAINC", time_idx, 0, FALSE),
             extract_var_slice(ds, "RAINNC", time_idx, 0, FALSE),
             extract_var_slice(ds, "RAINC", PrevIndex(ds, time_idx), 0, FALSE),
             extract_var_slice(ds, "RAINNC", PrevIndex(ds, time_idx), 0, FALSE))

\* the difference restarted in every batch: no value at the first step of a batch
calculate_total_rain_per_batch(ds, time_idx) ==
  IF time_idx % BATCH_SIZE = 0 THEN NoData
  ELSE HourlyRain(extract_var_slice(ds, "RAINC", time_idx, 0, FALSE),
                  extract_var_slice(ds, "RAINNC", time_idx, 0, FALSE),
                  extract_var_slice(ds, "RAINC", time_idx - 1, 0, FALSE),
                  extract_var_slice(ds, "RAINNC", time_idx - 1, 0, FALSE))

calculate_total_rain(ds, time_idx) ==
  IF time_idx = 0 THEN NoData
  ELSE HourlyRain(extract_var_slice(ds, "RAINC", time_idx, 0, FALSE),
                  extract_var_slice(ds, "RAINNC", time_idx, 0, FALSE),
                  extract_var_slice(ds, "RAINC", time_idx - 1, 0, FALSE),
                  extract_var_slice(ds, "RAINNC", time_idx - 1, 0, FALSE))

\* the extract_var_slice calls of calculate_total_rain, in order
RainReads(time_idx) ==
  IF time_idx = 0 THEN <<>>
  ELSE <<[var_name |-> "RAINC", time_idx |-> time_idx],
         [var_name |-> "RAINNC", time_idx |-> time_idx],
         [var_name |-> "RAINC", time_idx |-> time_idx - 1],
         [var_name |-> "RAINNC", time_idx |-> time_idx - 1]>>

\* ------------------------------------------ calculate_relative_humidity
\* svp1 * exp(svp2 * (t - svpt0) / (t - svp3)) in Pa, tabulated at the sampled
\* temperatures (milli-Kelvin); 0 stands for a value beyond 1e10
SvpPa(t) ==
  CASE t = 300150 -> 3565
    [] t = 250000 -> 95
    [] t = 273155 -> 611
    [] t = -100000 -> 0

\* 1.E2 * vapor_pressure / svp of one cell, the np.clip left out
RhCellUnclipped(q, t, p) ==
  IF q.k # "num" \/ t.k # "num" \/ p.k # "num" THEN NaN
  ELSE IF SvpPa(t.v) = 0 THEN Num(0)
  ELSE LET vapor_pressure == ((p.v \div Milli) * q.v * 100) \div ((378 * q.v + 622000) \div Milli)
       IN  Num((vapor_pressure * Milli) \div SvpPa(t.v))

\* np.clip(1.E2 * (p*q / (q*(1.-eps) + eps)) / svp, 0, 100) of one cell, in milli-percent
RhCell(q, t, p) ==
  IF q.k # "num" \/ t.k # "num" \/ p.k # "num" THEN NaN
  ELSE IF SvpPa(t.v) = 0 THEN Num(0)
  ELSE LET vapor_pressure == ((p.v \div Milli) * q.v * 100) \div ((378 * q.v + 622000) \div Milli)
           rh == (vapor_pressure * Milli) \div SvpPa(t.v)
       IN  Num(IF rh < 0 THEN 0 ELSE IF rh > 100 * Milli THEN 100 * Milli ELSE rh)

Cells(d) == {d[i][j] : i \in 1..Len(d), j \in 1..(IF Len(d) = 0 THEN 0 ELSE Len(d[1]))}
AllNaN(d) == \A c \in Cells(d) : isnan(c)
NumsOf(d) == {c.v : c \in {c \in Cells(d) : c.k = "num"}}
SetMax(S) == CHOOSE m \in S : \A y \in S : y <= m
SetMin(S) == CHOOSE m \in S : \A y \in S : m <= y

\* 100.0 * qvapor / max_q, the minimum left out
RescaleFromZero(d, min_q, max_q) ==
  LET F(c) == IF c.k = "num" THEN Num((100 * Milli * c.v) \div max_q) ELSE NaN
  IN  Map2(F, d)

\* 100.0 * (qvapor - min_q) / (max_q - min_q)
Rescale(d, min_q, max_q) ==
  LET F(c) == IF c.k = "num" THEN Num((100 * Milli * (c.v - min_q)) \div (max_q - min_q))
              ELSE NaN
  IN  Map2(F, d)

\* the simplified RH from QVAPOR alone; nanmax of an all-NaN plane is NaN, and
\* max_q > min_q is then false
FallbackRH(d) ==
  IF NumsOf(d) = {} THEN NoData
  ELSE IF SetMax(NumsOf(d)) > SetMin(NumsOf(d))
  THEN Arr(Rescale(d, SetMin(NumsOf(d)), SetMax(NumsOf(d))))
  ELSE NoData

NoneIfAllNaN(d) == IF AllNaN(d) THEN NoData ELSE Arr(d)

\* the body of calculate_relative_humidity once the three slices are extracted
RelativeHumidity(qvapor, temperature, pressure) ==
  IF qvapor.none THEN NoData
  ELSE IF temperature.none \/ pressure.none THEN FallbackRH(qvapor.data)
  ELSE IF AllNaN(qvapor.data) \/ AllNaN(temperature.data) \/ AllNaN(pressure.data)
  THEN NoData
  ELSE IF Shape(qvapor.data) # Shape(temperature.data) \/ Shape(qvapor.data) # Shape(pressure.data)
  THEN NoData    \* the arrays do not broadcast: ValueError, caught
  ELSE NoneIfAllNaN([i \in 1..Len(qvapor.data) |->
                       [j \in 1..Len(qvapor.data[i]) |->
                          RhCell(qvapor.data[i][j], temperature.data[i][j],
                                 pressure.data[i][j])]])

calculate_relative_humidity(ds, time_idx) ==
  RelativeHumidity(extract_var_slice(ds, "QVAPOR", time_idx, 0, FALSE),
                   extract_var_slice(ds, "T2", time_idx, 0, FALSE),
                   extract_var_slice(ds, "PSFC", time_idx, 0, FALSE))

\* ---------------------------------------------------- get_variable_data
get_variable_data(ds, var_name, time_idx) ==
  IF MetaOf(var_name).custom
  THEN (IF var_name = "RH" THEN calculate_relative_humidity(ds, time_idx)
        ELSE IF var_name = "TOTAL_RAIN" THEN calculate_total_rain(ds, time_idx)
        ELSE NoData)
  ELSE IF var_name \in {"P", "QVAPOR", "CLDFRA", "TKE_PBL"}
  THEN extract_var_slice(ds, var_name, time_idx, 0, TRUE)
  ELSE extract_var_slice(ds, var_name, time_idx, 0, FALSE)

\* ----------------------------------------------------------------- text
\* a string is a sequence of one-character strings
DigitChars == <<"0", "1", "2", "3", "4", "5", "6", "7", "8", "9">>

RECURSIVE Digits(_)
Digits(n) == IF n < 10 THEN <<DigitChars[n + 1]>> ELSE Digits(n \div 10) \o <<DigitChars[(n % 10) + 1]>>

RECURSIVE ZFill(_, _)
ZFill(s, width) == IF Len(s) >= width THEN s ELSE ZFill(<<"0">> \o s, width)

\* f"{n:03d}" and f"{n:02d}"
Fmt03d(n) == ZFill(Digits(n), 3)
Fmt02d(n) == ZFill(Digits(n), 2)

\* s.split(ch)[0]
SplitFirst(s, ch) ==
  LET hits == {i \in 1..Len(s) : s[i] = ch}
  IN  IF hits = {} THEN s ELSE SubSeq(s, 1, SetMin(hits) - 1)

\* s.replace(ch, '')
Remove(s, ch) == LET Keep(c) == c # ch IN SelectSeq(s, Keep)

\* timestamps[0].split('_')[0].replace('-', '')
InitialDate(stamp) == Remove(SplitFirst(stamp, "_"), "-")

\* -------------------------------------------------------- get_time_info
\* XTIME[i] in minutes and the decoded row i of Times (0-based i)
XtimeRaw(ds, i) == i * (IF ds.pattern % 2 = 0 THEN 60 ELSE 90)
StampRow(ds, i) ==
  IF ds.pattern % 2 = 0
  THEN <<"2", "0", "2", "5", "-", "0", "5", "-", "1", "4", "_">> \o Fmt02d(i) \o <<":", "0", "0">>
  ELSE <<"2", "0", "2", "5", "0", "6", "0", "1", "T">> \o Fmt02d(i)
TimesRows(ds) ==
  CASE ds.stamps = "more" -> ds.ntime + 1
    [] ds.stamps = "fewer" -> IF ds.ntime = 0 THEN 0 ELSE ds.ntime - 1
    [] OTHER -> ds.ntime

NoStamps == [none |-> TRUE, list |-> <<>>]
Stamps(l) == [none |-> FALSE, list |-> l]
\* Python truthiness of timestamps: neither None nor the empty list
Truthy(ts) == ~ts.none /\ Len(ts.list) > 0

\* "Ensure timestamps list matches times list"
MatchStamps(read, times) ==
  IF ~read.none /\ Len(read.list) # Len(times)
  THEN (IF Len(read.list) > Len(times) THEN Stamps(SubSeq(read.list, 1, Len(times)))
        ELSE NoStamps)
  ELSE read

ReadXtime(ds) ==
  IF ds.xtime = "ok" THEN [i \in 1..ds.ntime |-> XtimeRaw(ds, i - 1) \div 60] ELSE <<0>>
ReadTimes(ds) ==
  IF ds.stamps = "absent" THEN NoStamps
  ELSE Stamps([i \in 1..TimesRows(ds) |-> StampRow(ds, i - 1)])

\* ds.stamps = "bad": reading Times raises, and the outer except returns ([0], None)
get_time_info(ds) ==
  IF ds.stamps = "bad" THEN [times |-> <<0>>, timestamps |-> NoStamps]
  ELSE [times |-> ReadXtime(ds), timestamps |-> MatchStamps(ReadTimes(ds), ReadXtime(ds))]

\* ------------------------------------------------------------ the disk
\* disk maps each existing folder of data/ to its files; a file is
\* [by, complete, content]: by is "old" for a file an earlier run left and
\* "run" for one this run wrote, complete is FALSE for a file whose write failed
CurrentDate == <<"2", "0", "2", "6", "1", "1", "0", "4">>
FolderNames ==
  {<<"2", "0", "2", "5", "0", "5", "1", "4">>,
   <<"2", "0", "2", "5", "0", "6", "0", "1", "T", "0", "0">>,
   CurrentDate}

BatchFileName(n) == Fmt03d(n) \o <<".", OUTPUT_FORMAT>>
SummaryFileName == <<"batch_summary.json">>

OldFile == [by |-> "old", complete |-> TRUE, content |-> "old"]
OldFolder == (BatchFileName(1) :> OldFile) @@ (BatchFileName(4) :> OldFile)
               @@ (SummaryFileName :> OldFile)
EmptyFolder == [f \in {} |-> OldFile]

WriteFile(d, folder, name, file) ==
  [d EXCEPT ![folder] = [f \in (DOMAIN d[folder]) \cup {name} |->
                           IF f = name THEN file ELSE d[folder][f]]]

\* os.makedirs(output_dir, exist_ok=True) without the rmtree
RecreateKeep(d, folder) ==
  [f \in (DOMAIN d) \cup {folder} |-> IF f \in DOMAIN d THEN d[f] ELSE EmptyFolder]

\* shutil.rmtree(output_dir) when it exists, then os.makedirs(output_dir)
Recreate(d, folder) ==
  [f \in (DOMAIN d) \cup {folder} |-> IF f = folder THEN EmptyFolder ELSE d[f]]

\* ------------------------------------------------------------- the run
VARIABLES
  pc,                     \* position in main / process_compressed_weather_data
  dataset,                \* the dataset file (read-only)
  disk,                   \* the folders of data/
  times, timestamps,      \* get_time_info's result
  lats, lons,             \* the cleaned XLAT and XLONG planes
  output_dir,             \* the folder of this run
  valid_indices,          \* np.where(valid_mask), row-major
  total_batches, batch_idx,
  batch_data_structure,   \* the batch being built
  total_files_created, total_file_size,
  attempts,               \* the create_compressed_json calls so far, in order
  summary_written,        \* the json.dump of the summary outcome
  outcome,                \* how main ended
  qvar, qdata, qstage, qout,  \* quantize_data applied alone
  qraw,                       \* the caller's array, which np.array(data) copied
  arg_time_idx,               \* the time_idx a helper is called with, on its own
  arg_var_name, arg_surface_level, arg_all_levels,   \* extract_var_slice's other arguments
  extract_calls,              \* the extract_var_slice calls the helper made, in order
  hourly_rain,                \* calculate_total_rain's local before it is cleaned
  returned                    \* what the helper returned

runVars == <<dataset, disk, times, timestamps, lats, lons, output_dir, valid_indices,
             total_batches, batch_idx, batch_data_structure, total_files_created,
             total_file_size, attempts, summary_written, outcome>>
fnVars == <<qvar, qdata, qstage, qout, qraw>>
helperVars == <<arg_time_idx, arg_var_name, arg_surface_level, arg_all_levels,
                extract_calls, hourly_rain, returned>>
vars == <<pc, runVars, fnVars, helperVars>>

NoBatch == [metadata |-> <<>>, grid_info |-> <<>>, time_series |-> <<>>]

Datasets ==
  [pattern : 0..MaxPattern, ntime : 0..MaxTimes, xtime : {"ok", "absent", "bad"},
   stamps : {"same", "more", "fewer", "absent", "bad"}, geo : {"both", "nolat", "nolon"}]

FnIdle == qvar = "" /\ qdata = <<>> /\ qstage = "" /\ qout = <<>> /\ qraw = <<>>
SliceArgsIdle == arg_var_name = "" /\ arg_surface_level = 0 /\ arg_all_levels = FALSE
HelperIdle ==
  /\ arg_time_idx = 0 /\ SliceArgsIdle
  /\ extract_calls = <<>> /\ hourly_rain = NoData /\ returned = NoData

Init ==
  /\ pc = "main"
  /\ dataset \in Datasets
  /\ disk \in {[f \in {} |-> EmptyFolder], [f \in FolderNames |-> OldFolder]}
  /\ times = <<>> /\ timestamps = NoStamps
  /\ lats = NoData /\ lons = NoData
  /\ output_dir = <<>>
  /\ valid_indices = <<>>
  /\ total_batches = 0 /\ batch_idx = 0
  /\ batch_data_structure = NoBatch
  /\ total_files_created = 0 /\ total_file_size = 0
  /\ attempts = <<>>
  /\ summary_written = "no"
  /\ outcome = ""
  /\ FnIdle
  /\ HelperIdle

\* main: get_dataset raises RuntimeError for a path that cannot be opened
OpenDataset ==
  /\ pc = "main"
  /\ \E opens \in BOOLEAN :
       IF opens THEN pc' = "opened" /\ outcome' = outcome
       ELSE pc' = "fatal" /\ outcome' = "RuntimeError"
  /\ UNCHANGED <<dataset, disk, times, timestamps, lats, lons, output_dir, valid_indices,
                 total_batches, batch_idx, batch_data_structure, total_files_created,
                 total_file_size, attempts, summary_written, fnVars, helperVars>>

\* the output folder recreated ahead of the lat/long test
ReadAxesFolderFirst ==
  /\ pc = "opened"
  /\ times' = get_time_info(dataset).times
  /\ timestamps' = get_time_info(dataset).timestamps
  /\ lats' = extract_var_slice(dataset, "XLAT", 0, 0, FALSE)
  /\ lons' = extract_var_slice(dataset, "XLONG", 0, 0, FALSE)
  /\ IF lats'.none \/ lons'.none
     THEN pc' = "done" /\ outcome' = "latlong_missing" /\ disk' = Recreate(disk, CurrentDate)
     ELSE pc' = "ready" /\ outcome' = outcome /\ disk' = disk
  /\ UNCHANGED <<dataset, output_dir, valid_indices, total_batches, batch_idx,
                 batch_data_structure, total_files_created, total_file_size, attempts,
                 summary_written, fnVars, helperVars>>

\* main: get_time_info, the two extract_var_slice calls and the lat/long test
ReadAxes ==
  /\ pc = "opened"
  /\ times' = get_time_info(dataset).times
  /\ timestamps' = get_time_info(dataset).timestamps
  /\ lats' = extract_var_slice(dataset, "XLAT", 0, 0, FALSE)
  /\ lons' = extract_var_slice(dataset, "XLONG", 0, 0, FALSE)
  /\ IF lats'.none \/ lons'.none
     THEN pc' = "done" /\ outcome' = "latlong_missing"
     ELSE pc' = "ready" /\ outcome' = outcome
  /\ UNCHANGED <<dataset, disk, output_dir, valid_indices, total_batches, batch_idx,
                 batch_data_structure, total_files_created, total_file_size, attempts,
                 summary_written, fnVars, helperVars>>

\* the mask built from the latitudes alone
ValidIndicesLatOnly(la, lo) ==
  LET rows == Shape(la)[1]
      cols == Shape(la)[2]
      all == [n \in 1..(rows * cols) |-> <<((n - 1) \div cols) + 1, ((n - 1) % cols) + 1>>]
      Valid(rc) == ~isnan(la[rc[1]][rc[2]])
  IN  SelectSeq(all, Valid)

\* np.where(~(np.isnan(lats) | np.isnan(lons))): the valid cells in row-major order
ValidIndices(la, lo) ==
  LET rows == Shape(la)[1]
      cols == Shape(la)[2]
      all == [n \in 1..(rows * cols) |-> <<((n - 1) \div cols) + 1, ((n - 1) % cols) + 1>>]
      Valid(rc) == ~(isnan(la[rc[1]][rc[2]]) \/ isnan(lo[rc[1]][rc[2]]))
  IN  SelectSeq(all, Valid)

\* process_compressed_weather_data up to the batch loop: the output folder,
\* the valid points, the batch count and the counters
PrepareOutput ==
  /\ pc = "ready"
  /\ IF ~Truthy(timestamps)
     THEN \* initial_date is never assigned: f"{initial_date}" raises UnboundLocalError
          /\ pc' = "fatal"
          /\ outcome' = "UnboundLocalError"
          /\ UNCHANGED <<disk, output_dir, valid_indices, total_batches>>
     ELSE /\ output_dir' = InitialDate(timestamps.list[1])
          /\ disk' = Recreate(disk, output_dir')
          /\ valid_indices' = ValidIndices(lats.data, lons.data)
          /\ total_batches' = (Len(times) + BATCH_SIZE - 1) \div BATCH_SIZE
          /\ pc' = IF total_batches' > 0 THEN "batch" ELSE "summary"
          /\ outcome' = outcome
  /\ batch_idx' = 0
  /\ total_files_created' = 0
  /\ total_file_size' = 0
  /\ UNCHANGED <<dataset, times, timestamps, lats, lons, batch_data_structure, attempts,
                 summary_written, fnVars, helperVars>>

\* ------------------------------------------------------- the batch loop
HourLabel(h) == <<"h", "o", "u", "r", "_">> \o Digits(h)

\* np.nanmin and np.nanmax of a plane (NaN when every cell is NaN)
nanmin(d) == IF NumsOf(d) = {} THEN NaN ELSE Num(SetMin(NumsOf(d)))
nanmax(d) == IF NumsOf(d) = {} THEN NaN ELSE Num(SetMax(NumsOf(d)))
\* (max - min) / (n - 1) if n > 1 else 0
Resolution(d, n) ==
  IF n > 1 THEN (IF NumsOf(d) = {} THEN NaN
                 ELSE Num((SetMax(NumsOf(d)) - SetMin(NumsOf(d))) \div (n - 1)))
  ELSE Num(0)

\* windows that start one step early, so that neighbours share a time step
StartTimeIdxOverlapping(b) == b * (BATCH_SIZE - 1)
StartTimeIdx(b) == b * BATCH_SIZE
EndTimeIdx(b) == IF StartTimeIdx(b) + BATCH_SIZE < Len(times)
                 THEN StartTimeIdx(b) + BATCH_SIZE ELSE Len(times)
ActualBatchSize(b) == EndTimeIdx(b) - StartTimeIdx(b)

\* the head of one iteration of `for batch_idx in range(total_batches)`
BeginBatch ==
  /\ pc = "batch"
  /\ batch_idx < total_batches
  /\ batch_data_structure' =
       [metadata |->
          [batch_number |-> batch_idx + 1,
           total_batches |-> total_batches,
           batch_size |-> ActualBatchSize(batch_idx),
           initial_timestamp |-> IF Truthy(timestamps) THEN timestamps.list[1]
                                 ELSE HourLabel(times[1]),
           final_timestamp |-> IF Truthy(timestamps) THEN timestamps.list[Len(timestamps.list)]
                               ELSE HourLabel(times[Len(times)]),
           total_timestamps |-> IF Truthy(timestamps) THEN Len(timestamps.list) ELSE Len(times),
           points_per_time |-> Len(valid_indices),
           variable_scales |-> [n \in 1..Len(VARIABLES_TO_PROCESS) |->
                                  MetaOf(VARIABLES_TO_PROCESS[n]).scale]],
        grid_info |->
          [corner |-> <<nanmin(lats.data), nanmin(lons.data)>>,
           steps |-> <<Resolution(lats.data, Shape(lats.data)[1]),
                       Resolution(lons.data, Shape(lats.data)[2])>>,
           size |-> Shape(lats.data)],
        time_series |-> <<>>]
  /\ pc' = "steps"
  /\ UNCHANGED <<dataset, disk, times, timestamps, lats, lons, output_dir, valid_indices,
                 total_batches, batch_idx, total_files_created, total_file_size, attempts,
                 summary_written, outcome, fnVars, helperVars>>

\* raw_data[valid_indices] raises IndexError when a valid cell lies outside raw_data
OutOfBounds(plane, valid) ==
  \E n \in 1..Len(valid) : valid[n][1] > Shape(plane)[1] \/ valid[n][2] > Shape(plane)[2]

Skipped(why) == [emit |-> FALSE, why |-> why, array |-> <<>>]

\* the loop body without the valid_count test
QuantizePlaneNoSkip(plane, var_name, valid) ==
  IF OutOfBounds(plane, valid) THEN Skipped("error")
  ELSE [emit |-> TRUE, why |-> "ok",
        array |-> quantize_data([n \in 1..Len(valid) |-> plane[valid[n][1]][valid[n][2]]],
                                var_name)]

\* the body of `for var_name in VARIABLES_TO_PROCESS` for one plane
QuantizePlane(plane, var_name, valid) ==
  IF OutOfBounds(plane, valid) THEN Skipped("error")
  ELSE LET data_1d == [n \in 1..Len(valid) |-> plane[valid[n][1]][valid[n][2]]]
           valid_count == Cardinality({n \in 1..Len(valid) : ~isnan(data_1d[n])})
       IN  IF valid_count = 0 THEN Skipped("all_nan")
           ELSE [emit |-> TRUE, why |-> "ok", array |-> quantize_data(data_1d, var_name)]

ProcessRaw(raw_data, var_name, valid) ==
  IF raw_data.none THEN Skipped("no_data")
  ELSE IF raw_data.rank = 2 THEN QuantizePlane(raw_data.data, var_name, valid)
  ELSE IF raw_data.rank = 3
  THEN (IF Len(raw_data.data) = 0 THEN Skipped("error")
        ELSE QuantizePlane(raw_data.data[1], var_name, valid))
  ELSE Skipped("unsupported")

ProcessVariable(ds, var_name, global_time_idx, valid) ==
  ProcessRaw(get_variable_data(ds, var_name, global_time_idx), var_name, valid)

\* a `break` in place of the `continue`: nothing after the first skipped variable
EmittedUntilSkip(results) ==
  [name \in {VARIABLES_TO_PROCESS[n] :
               n \in {m \in DOMAIN results : \A k \in 1..m : results[k].emit}} |->
     results[CHOOSE n \in DOMAIN results : VARIABLES_TO_PROCESS[n] = name].array]

\* the dict of the arrays that were emitted
Emitted(results) ==
  [name \in {VARIABLES_TO_PROCESS[n] : n \in {m \in DOMAIN results : results[m].emit}} |->
     results[CHOOSE n \in DOMAIN results : VARIABLES_TO_PROCESS[n] = name].array]

\* variables_data of one time step
VariablesData(ds, global_time_idx, valid) ==
  Emitted([n \in 1..Len(VARIABLES_TO_PROCESS) |->
             ProcessVariable(ds, VARIABLES_TO_PROCESS[n], global_time_idx, valid)])

\* one iteration of `for local_time_idx, time_value in enumerate(batch_times)`
ProcessTimeStep ==
  /\ pc = "steps"
  /\ LET local_time_idx == Len(batch_data_structure.time_series)
         global_time_idx == StartTimeIdx(batch_idx) + local_time_idx
     IN  /\ local_time_idx < ActualBatchSize(batch_idx)
         /\ batch_data_structure' =
              [batch_data_structure EXCEPT !.time_series =
                 Append(@, [time |-> times[global_time_idx + 1],
                            variables |-> VariablesData(dataset, global_time_idx,
                                                        valid_indices)])]
         /\ pc' = IF local_time_idx + 1 < ActualBatchSize(batch_idx) THEN "steps" ELSE "save"
  /\ UNCHANGED <<dataset, disk, times, timestamps, lats, lons, output_dir, valid_indices,
                 total_batches, batch_idx, total_files_created, total_file_size, attempts,
                 summary_written, outcome, fnVars, helperVars>>

\* os.path.getsize of a written batch: one byte per serialized time step and array entry
FileSize(batch) == Len(batch.time_series) * (1 + batch.metadata.points_per_time)

\* the tail of one iteration: create_compressed_json inside try/except.  It
\* succeeds, or raises before the file exists ("no_file"), or raises while
\* writing and leaves a truncated file ("partial")
\* total_files_created += 1 is reached only when create_compressed_json returned
CountSaved(result, created) == IF result = "ok" THEN created + 1 ELSE created
\* `continue` in the except clause: the loop goes on to the next batch either way
\* a `break` in place of the `continue`
AfterSaveBreak(result, b, total) ==
  IF result # "ok" THEN "summary" ELSE IF b + 1 < total THEN "batch" ELSE "summary"
AfterSave(result, b, total) == IF b + 1 < total THEN "batch" ELSE "summary"

SaveBatch ==
  /\ pc = "save"
  /\ \E result \in {"ok", "no_file", "partial"} :
       LET batch_filename == BatchFileName(batch_idx + 1)
       IN  /\ disk' = IF result = "no_file" THEN disk
                      ELSE WriteFile(disk, output_dir, batch_filename,
                                     [by |-> "run", complete |-> result = "ok",
                                      content |-> batch_data_structure])
           /\ total_files_created' = CountSaved(result, total_files_created)
           /\ total_file_size' = IF result = "ok"
                                 THEN total_file_size + FileSize(batch_data_structure)
                                 ELSE total_file_size
           /\ attempts' = Append(attempts,
                                 [batch_number |-> batch_idx + 1, name |-> batch_filename,
                                  entries |-> Len(batch_data_structure.time_series),
                                  ok |-> result = "ok"])
           /\ pc' = AfterSave(result, batch_idx, total_batches)
  /\ batch_idx' = batch_idx + 1
  /\ UNCHANGED <<dataset, times, timestamps, lats, lons, output_dir, valid_indices,
                 total_batches, batch_data_structure, summary_written, outcome, fnVars, helperVars>>

\* summary_data and its json.dump inside try/except
SummaryData ==
  [total_batches |-> total_batches,
   batch_size |-> BATCH_SIZE,
   total_timesteps |-> Len(times),
   total_files_created |-> total_files_created,
   total_size |-> total_file_size,
   output_format |-> OUTPUT_FORMAT,
   variables_processed |-> VARIABLES_TO_PROCESS,
   batch_files |-> [i \in 1..total_files_created |-> BatchFileName(i)]]

WriteSummary ==
  /\ pc = "summary"
  /\ \E result \in {"ok", "no_file", "partial"} :
       /\ disk' = IF result = "no_file" THEN disk
                  ELSE WriteFile(disk, output_dir, SummaryFileName,
                                 [by |-> "run", complete |-> result = "ok",
                                  content |-> SummaryData])
       /\ summary_written' = result
  /\ pc' = "report"
  /\ UNCHANGED <<dataset, times, timestamps, lats, lons, output_dir, valid_indices,
                 total_batches, batch_idx, batch_data_structure, total_files_created,
                 total_file_size, attempts, outcome, fnVars, helperVars>>

\* the closing report: total_file_size / total_files_created raises
\* ZeroDivisionError when no batch was saved; main catches it
Report ==
  /\ pc = "report"
  /\ IF total_files_created = 0
     THEN pc' = "fatal" /\ outcome' = "ZeroDivisionError"
     ELSE pc' = "done" /\ outcome' = "returned"
  /\ UNCHANGED <<dataset, disk, times, timestamps, lats, lons, output_dir, valid_indices,
                 total_batches, batch_idx, batch_data_structure, total_files_created,
                 total_file_size, attempts, summary_written, fnVars, helperVars>>

Next ==
  \/ OpenDataset
  \/ ReadAxes
  \/ PrepareOutput
  \/ BeginBatch
  \/ ProcessTimeStep
  \/ SaveBatch
  \/ WriteSummary
  \/ Report

Spec == Init /\ [][Next]_vars

\* ------------------------------------------- quantize_data applied alone
\* an array of any cells is quantized as it is, or first cleaned the way the
\* pipeline cleans the variable: extract_var_slice cleans under the variable's own
\* name, calculate_total_rain under "HOURLY_RAIN"
QVarNames == MetaNames \cup {"XLAT"}
QCells ==
  {NaN, PosInf, NegInf, PosHuge, NegHuge, Num(0), Num(-3005), Num(5250), Num(100),
   Num(300150), Num(-100000), Num(700000), Num(655350), Num(2000000),
   Num(-1500000000)}

CleanName(var_name) == IF var_name = "TOTAL_RAIN" THEN "HOURLY_RAIN" ELSE var_name

IdleDataset == [pattern |-> 0, ntime |-> 0, xtime |-> "absent", stamps |-> "absent", geo |-> "both"]

InitQ ==
  /\ pc = "quantize"
  /\ dataset = IdleDataset
  /\ disk = [f \in {} |-> EmptyFolder]
  /\ times = <<>> /\ timestamps = NoStamps
  /\ lats = NoData /\ lons = NoData
  /\ output_dir = <<>>
  /\ valid_indices = <<>>
  /\ total_batches = 0 /\ batch_idx = 0
  /\ batch_data_structure = NoBatch
  /\ total_files_created = 0 /\ total_file_size = 0
  /\ attempts = <<>>
  /\ summary_written = "no"
  /\ outcome = ""
  /\ qvar \in QVarNames
  /\ qdata \in [1..QLen -> QCells]
  /\ qraw = qdata
  /\ qstage = "raw"
  /\ qout = <<>>
  /\ HelperIdle

QSanitize ==
  /\ pc = "quantize"
  /\ qstage = "raw"
  /\ qvar # "RH"    \* RH is clipped by calculate_relative_humidity, not cleaned
  /\ qdata' = clean_invalid_values(Arr(<<qdata>>), CleanName(qvar)).data[1]
  /\ qstage' = "clean"
  /\ UNCHANGED <<pc, runVars, qvar, qout, qraw, helperVars>>

\* The clip bound 2^32 - 1 is 2^32 as a float32, so a saturated float32 product
\* overflows in astype('uint32'): the build decides whether it saturates or wraps
QQuantize ==
  /\ pc = "quantize"
  /\ \E cast \in {"saturate", "wrap"} :
       qout' = [i \in 1..Len(qdata) |->
                  IF /\ cast = "wrap"
                     /\ MetaOf(qvar).dtype = "uint32"
                     /\ ~isnan(qdata[i])
                     /\ QuantizeCell(qdata[i], qvar) = IInfoMax("uint32")
                  THEN W(0)
                  ELSE quantize_data(qdata, qvar)[i]]
  /\ pc' = "quantized"
  /\ UNCHANGED <<runVars, qvar, qdata, qstage, qraw, helperVars>>

NextQ == QSanitize \/ QQuantize

SpecQuantize == InitQ /\ [][NextQ]_vars

\* ------------------------------------------------ the helpers alone
\* calculate_total_rain, calculate_relative_humidity, get_time_info and
\* extract_var_slice, each called once on a sampled dataset
\* the names extract_var_slice is called with: every stored variable and one
\* that no dataset holds
SliceNames == {SourceVars[i] : i \in 1..Len(SourceVars)} \cup {"PBLH"}

InitHelpers ==
  /\ pc \in {"total_rain", "relative_humidity", "time_info", "extract_var_slice"}
  /\ dataset \in (IF pc = "extract_var_slice" THEN {d \in Datasets : d.stamps = "same"}
                  ELSE Datasets)
  /\ disk = [f \in {} |-> EmptyFolder]
  /\ times = <<>> /\ timestamps = NoStamps
  /\ lats = NoData /\ lons = NoData
  /\ output_dir = <<>>
  /\ valid_indices = <<>>
  /\ total_batches = 0 /\ batch_idx = 0
  /\ batch_data_structure = NoBatch
  /\ total_files_created = 0 /\ total_file_size = 0
  /\ attempts = <<>>
  /\ summary_written = "no"
  /\ outcome = ""
  /\ FnIdle
  /\ arg_time_idx \in (IF pc = "time_info" THEN {0}
                        ELSE IF pc = "extract_var_slice"
                        THEN {t \in 0..dataset.ntime : t <= 1 \/ t = dataset.ntime}
                        ELSE 0..dataset.ntime)
  /\ IF pc = "extract_var_slice"
     THEN /\ arg_var_name \in SliceNames
          /\ arg_all_levels \in BOOLEAN
          /\ arg_surface_level \in (IF arg_all_levels THEN {0} ELSE 0..MaxLevel)
     ELSE SliceArgsIdle
  /\ extract_calls = <<>> /\ hourly_rain = NoData /\ returned = NoData

CallTotalRain ==
  /\ pc = "total_rain"
  /\ extract_calls' = RainReads(arg_time_idx)
  /\ hourly_rain' =
       IF arg_time_idx = 0 THEN NoData
       ELSE RainDifference(extract_var_slice(dataset, "RAINC", arg_time_idx, 0, FALSE),
                           extract_var_slice(dataset, "RAINNC", arg_time_idx, 0, FALSE),
                           extract_var_slice(dataset, "RAINC", arg_time_idx - 1, 0, FALSE),
                           extract_var_slice(dataset, "RAINNC", arg_time_idx - 1, 0, FALSE))
  /\ returned' = calculate_total_rain(dataset, arg_time_idx)
  /\ pc' = "total_rain_done"
  /\ UNCHANGED <<runVars, fnVars, arg_time_idx, arg_var_name, arg_surface_level, arg_all_levels>>

CallRelativeHumidity ==
  /\ pc = "relative_humidity"
  /\ returned' = calculate_relative_humidity(dataset, arg_time_idx)
  /\ pc' = "relative_humidity_done"
  /\ UNCHANGED <<runVars, fnVars, arg_time_idx, arg_var_name, arg_surface_level, arg_all_levels,
                 extract_calls, hourly_rain>>

CallTimeInfo ==
  /\ pc = "time_info"
  /\ returned' = get_time_info(dataset)
  /\ pc' = "time_info_done"
  /\ UNCHANGED <<runVars, fnVars, arg_time_idx, arg_var_name, arg_surface_level, arg_all_levels,
                 extract_calls, hourly_rain>>

CallExtractVarSlice ==
  /\ pc = "extract_var_slice"
  /\ returned' = extract_var_slice(dataset, arg_var_name, arg_time_idx, arg_surface_level,
                                   arg_all_levels)
  /\ pc' = "extract_var_slice_done"
  /\ UNCHANGED <<runVars, fnVars, arg_time_idx, arg_var_name, arg_surface_level, arg_all_levels,
                 extract_calls, hourly_rain>>

NextHelpers == CallTotalRain \/ CallRelativeHumidity \/ CallTimeInfo \/ CallExtractVarSlice

SpecHelpers == InitHelpers /\ [][NextHelpers]_vars

\* ================================================================ claims
\* the largest value of an integer type, written out: 2^15 - 1, 2^16 - 1, 2^32 - 1
SentinelOf(dtype) ==
  CASE dtype = "int16" -> [hi |-> 0, lo |-> 32767]
    [] dtype = "uint16" -> [hi |-> 0, lo |-> 65535]
    [] dtype = "uint32" -> [hi |-> 65535, lo |-> 65535]

\* the folder of this run and the files it wrote there
Started == output_dir # <<>>
RunFiles == IF Started THEN {f \in DOMAIN disk[output_dir] : disk[output_dir][f].by = "run"}
            ELSE {}
BatchFiles == RunFiles \ {SummaryFileName}
\* every batch is examined when it is complete and about to be serialized
RunBatches == IF pc = "save" THEN {batch_data_structure} ELSE {}
GlobalIdx(B, e) == (B.metadata.batch_number - 1) * 5 + (e - 1)
\* the cleaned plane a variable's array was taken from
PlaneOf(var_name, g) ==
  LET raw == get_variable_data(dataset, var_name, g)
  IN  IF raw.rank = 3 THEN raw.data[1] ELSE raw.data

Ended == pc \in {"done", "fatal"}
\* the run got past get_dataset and the lat/long test
Processed == Ended /\ outcome \notin {"RuntimeError", "latlong_missing"}
\* ceil(n / 5), stated without the code's arithmetic
CeilDiv5(n) == CHOOSE m \in 0..n : 5 * m >= n /\ 5 * m < n + 5
\* the decimal numeral of k padded with zeros to three digits, then ".json_gz"
ThreeDigitName(k) ==
  <<DigitChars[(k \div 100) + 1], DigitChars[((k \div 10) % 10) + 1], DigitChars[(k % 10) + 1],
    ".", "json_gz">>
SavedFiles == {f \in BatchFiles : disk[output_dir][f].complete}
AllSaved == \A i \in 1..Len(attempts) : attempts[i].ok

\* C1: the batch files of a run over n time steps are named 001, 002, ... and,
\* when no batch fails to serialize, there are ceil(n / 5) of them
C1_NamesAndCount ==
  Processed =>
    /\ \A f \in BatchFiles : \E k \in 1..999 : f = ThreeDigitName(k)
    /\ AllSaved => Cardinality(SavedFiles) = CeilDiv5(Len(times))

\* C2: the batch_files list of the written summary is exactly the set of the
\* batch files this run saved
C2_SummaryListsSavedFiles ==
  (summary_written = "ok") =>
    LET listed == disk[output_dir][SummaryFileName].content.batch_files
    IN  {listed[i] : i \in 1..Len(listed)} = SavedFiles

\* C3: a batch whose serialization fails is skipped and not counted, every later
\* batch is still built and attempted under its own ordinal, and in the end
\* total_files_created is the number of batches that were saved
C3_FailureSkipsOneBatch ==
  /\ \A i \in 1..Len(attempts) :
       /\ attempts[i].batch_number = i
       /\ attempts[i].name = ThreeDigitName(i)
       /\ attempts[i].entries = (IF 5 * i <= Len(times) THEN 5 ELSE Len(times) - 5 * (i - 1))
       /\ attempts[i].entries >= 1
  /\ total_files_created = Cardinality({i \in 1..Len(attempts) : attempts[i].ok})
  /\ (Started /\ pc \in {"summary", "report", "done", "fatal"}) =>
       Len(attempts) = CeilDiv5(Len(times))

C3_Witness ==
  /\ pc = "done"
  /\ Len(attempts) = 3
  /\ ~attempts[1].ok /\ attempts[2].ok /\ ~attempts[3].ok

\* C4: every run whose dataset opens and whose latitude and longitude are present
\* has written batch_summary.json into its output folder when it ends
C4_SummaryAlwaysWritten ==
  Processed =>
    /\ Started
    /\ SummaryFileName \in RunFiles
    /\ disk[output_dir][SummaryFileName].complete

\* C5: a dataset without usable timestamps does not fail the run: the output
\* folder is named from the current date and all ceil(n / 5) batches are attempted
C5_NoTimestampsIsNotFatal ==
  (Processed /\ timestamps.none) =>
    /\ outcome # "UnboundLocalError"
    /\ output_dir = CurrentDate
    /\ Len(attempts) = CeilDiv5(Len(times))

\* C6: once a run has reached batch processing, every file of its output folder
\* was written by that run: the folder was emptied before the first batch, and
\* nothing the run saved was deleted afterwards
C6_NoStaleFiles ==
  Started =>
    /\ \A f \in DOMAIN disk[output_dir] : disk[output_dir][f].by = "run"
    /\ (pc = "batch" /\ batch_idx = 0) => DOMAIN disk[output_dir] = {}
    /\ \A i \in 1..Len(attempts) : attempts[i].ok => attempts[i].name \in SavedFiles

C6_Witness ==
  /\ pc = "done"
  /\ \E d \in DOMAIN disk : d # output_dir /\ BatchFileName(4) \in DOMAIN disk[d]
  /\ Cardinality(SavedFiles) = 3

\* the grid cells with a latitude and a longitude, and their row-major rank
GridCells == {rc \in (1..Shape(lats.data)[1]) \X (1..Shape(lats.data)[2]) :
                lats.data[rc[1]][rc[2]].k = "num" /\ lons.data[rc[1]][rc[2]].k = "num"}
Before(a, b) == a[1] < b[1] \/ (a[1] = b[1] /\ a[2] < b[2])
NthCell(n) == CHOOSE rc \in GridCells : Cardinality({o \in GridCells : Before(o, rc)}) = n - 1

\* C7: the valid points are the cells whose latitude and longitude are both
\* finite, in one fixed order; every array of every batch has points_per_time
\* entries, the n-th being the quantized value of the n-th valid cell
C7_ArraysFollowValidPoints ==
  Started =>
    /\ Len(valid_indices) = Cardinality(GridCells)
    /\ \A n \in 1..Len(valid_indices) : valid_indices[n] = NthCell(n)
    /\ \A B \in RunBatches :
         /\ B.metadata.points_per_time = Cardinality(GridCells)
         /\ \A e \in 1..Len(B.time_series) : \A name \in DOMAIN B.time_series[e].variables :
              /\ Len(B.time_series[e].variables[name]) = Cardinality(GridCells)
              /\ LET plane == PlaneOf(name, GlobalIdx(B, e))
                 IN  \A n \in 1..Cardinality(GridCells) :
                       B.time_series[e].variables[name][n] =
                         QuantizeCell(plane[NthCell(n)[1]][NthCell(n)[2]], name)

C7_Witness ==
  /\ pc = "save"
  /\ \E rc \in GridCells : rc[2] > 1 /\ (lats.data[rc[1]][rc[2] - 1]).k = "nan"
  /\ \E rc \in GridCells : rc[2] < GridCols /\ (lons.data[rc[1]][rc[2] + 1]).k = "nan"
  /\ \E B \in RunBatches : \E e \in 1..Len(B.time_series) :
       DOMAIN B.time_series[e].variables # {}

\* the plane exists, covers the valid points and is NaN at every one of them
MissingAtValidPoints(name, g) ==
  LET raw == get_variable_data(dataset, name, g)
      plane == IF raw.rank = 3 THEN raw.data[1] ELSE raw.data
  IN  /\ ~raw.none
      /\ ~OutOfBounds(plane, valid_indices)
      /\ \A n \in 1..Len(valid_indices) : isnan(plane[valid_indices[n][1]][valid_indices[n][2]])

\* C8: a variable whose field is entirely missing at the valid points has no key
\* in that time step's variables map, so no emitted array comes from such a field
C8_AllMissingIsDropped ==
  \A B \in RunBatches : \A e \in 1..Len(B.time_series) :
    \A n \in 1..Len(VARIABLES_TO_PROCESS) :
      MissingAtValidPoints(VARIABLES_TO_PROCESS[n], GlobalIdx(B, e)) =>
        VARIABLES_TO_PROCESS[n] \notin DOMAIN B.time_series[e].variables

C8_Witness ==
  /\ pc = "save"
  /\ Len(valid_indices) > 0
  /\ \E B \in RunBatches : \E e \in 1..Len(B.time_series) :
       /\ MissingAtValidPoints("T2", GlobalIdx(B, e))
       /\ "T2" \notin DOMAIN B.time_series[e].variables
       /\ DOMAIN B.time_series[e].variables # {}

\* C9: for every variable with an integer target type, quantize_data maps every
\* NaN cell to exactly the maximum value of that type, whatever the other cells hold
C9_NaNToSentinel ==
  (pc = "quantized" /\ IsIntDtype(MetaOf(qvar).dtype)) =>
    \A i \in 1..Len(qdata) : isnan(qdata[i]) => qout[i] = SentinelOf(MetaOf(qvar).dtype)

C9_Witness ==
  /\ pc = "quantized"
  /\ MetaOf(qvar).dtype = "uint32"
  /\ \E i, j \in 1..Len(qdata) : isnan(qdata[i]) /\ qdata[j].k = "num" /\ qdata[j].v > 0

\* C10: no valid (non-NaN) cell of an integer-typed variable is quantized to the
\* type's maximum value, in any array of any batch
C10_SentinelOnlyForMissing ==
  \A B \in RunBatches : \A e \in 1..Len(B.time_series) :
    \A name \in DOMAIN B.time_series[e].variables :
      LET plane == PlaneOf(name, GlobalIdx(B, e))
      IN  \A n \in 1..Len(valid_indices) :
            ~isnan(plane[valid_indices[n][1]][valid_indices[n][2]]) =>
              B.time_series[e].variables[name][n] # SentinelOf(MetaOf(name).dtype)

\* the integer a two-limb value stands for (for values that fit TLC's integers)
WInt(x) == x.hi * Limb + x.lo
Abs(x) == IF x < 0 THEN -x ELSE x

\* C11: for every integer-typed variable without temperature conversion and every
\* valid value v that passed sanitization, |quantized / scale - v| <= 1 / scale
C11_RoundTripWithinOneStep ==
  (/\ pc = "quantized"
   /\ qstage = "clean"
   /\ IsIntDtype(MetaOf(qvar).dtype)
   /\ ~MetaOf(qvar).convert_temp) =>
    \A i \in 1..Len(qdata) :
      qdata[i].k = "num" =>
        Abs(WInt(qout[i]) * Milli - qdata[i].v * MetaOf(qvar).scale) <= Milli

\* C12: for every variable name, registered or not, clean_invalid_values makes
\* missing every cell that is infinite, larger than 1e10 in magnitude or below
\* -1e6, and returns a field of the input's shape
C12_FillValuesBecomeMissing ==
  (qstage = "clean") =>
    /\ Len(qdata) = Len(qraw)
    /\ \A i \in 1..Len(qraw) :
         (\/ qraw[i].k \in {"inf", "huge"}
          \/ (qraw[i].k = "num" /\ qraw[i].v < -1000000 * 1000)) => qdata[i].k = "nan"

C12_Witness ==
  /\ qstage = "clean"
  /\ qvar = "XLAT"
  /\ qraw = <<Num(-1500000000), PosHuge>>

\* C13: under a registered range [lo, hi] a cell below lo or above hi becomes
\* missing and a cell with lo <= value <= hi is returned unchanged; under a name
\* that has no range every finite cell that is not a fill value is unchanged
C13_RangeFilter ==
  (qstage = "clean") =>
    \A i \in 1..Len(qraw) :
      qraw[i].k = "num" =>
        IF InRangeTable(CleanName(qvar))
        THEN LET lo == valid_ranges(CleanName(qvar))[1]
                 hi == valid_ranges(CleanName(qvar))[2]
             IN  /\ (qraw[i].v < lo \/ qraw[i].v > hi) => qdata[i].k = "nan"
                 /\ (lo <= qraw[i].v /\ qraw[i].v <= hi) => qdata[i] = qraw[i]
        ELSE (qraw[i].v >= -1000000 * 1000) => qdata[i] = qraw[i]

C13_Witness ==
  /\ qstage = "clean"
  /\ qvar = "RAINC"
  /\ qraw = <<Num(-3005), Num(5250)>>
  /\ qdata = <<NaN, Num(5250)>>

\* C14: a temperature cell stored in Kelvin is emitted as a value other than the
\* sentinel exactly when its Celsius value, Kelvin - 273.15, lies in [-150, 350]
C14_TemperatureRangeInCelsius ==
  (pc = "quantized" /\ qstage = "clean" /\ qvar \in {"T2", "TSK", "SST"}) =>
    \A i \in 1..Len(qraw) :
      qraw[i].k = "num" =>
        ((qout[i] # SentinelOf("int16")) <=>
           (-150 * 1000 <= qraw[i].v - 273150 /\ qraw[i].v - 273150 <= 350 * 1000))

\* the four cleaned rain slices calculate_total_rain works on
RainNow(name) == extract_var_slice(dataset, name, arg_time_idx, 0, FALSE)
RainPrev(name) == extract_var_slice(dataset, name, arg_time_idx - 1, 0, FALSE)

\* C15: for time index 0 calculate_total_rain returns no data, whatever the
\* dataset holds, and makes no extract_var_slice call
C15_NoRainAtTimeZero ==
  (pc = "total_rain_done" /\ arg_time_idx = 0) => (returned = NoData /\ extract_calls = <<>>)

C15_Witness ==
  /\ pc = "total_rain_done"
  /\ arg_time_idx = 0
  /\ dataset.ntime >= 2
  /\ ~RawSlice(dataset, "RAINC", 0, 0, FALSE).none
  /\ ~RawSlice(dataset, "RAINNC", 0, 0, FALSE).none
  /\ Shape(RawSlice(dataset, "RAINC", 0, 0, FALSE).data)
       = Shape(RawSlice(dataset, "RAINNC", 0, 0, FALSE).data)

\* all four slices are present and have one shape
RainInputsAgree ==
  /\ ~RainNow("RAINC").none /\ ~RainNow("RAINNC").none
  /\ ~RainPrev("RAINC").none /\ ~RainPrev("RAINNC").none
  /\ Shape(RainNow("RAINC").data) = Shape(RainNow("RAINNC").data)
  /\ Shape(RainNow("RAINC").data) = Shape(RainPrev("RAINC").data)
  /\ Shape(RainNow("RAINC").data) = Shape(RainPrev("RAINNC").data)

\* C16: for t >= 1 with the four rain fields present and of one shape, each cell
\* of the difference, before it is cleaned, is
\* (RAINC[t] + RAINNC[t]) - (RAINC[t-1] + RAINNC[t-1]), missing when an operand is
C16_HourlyDifference ==
  (pc = "total_rain_done" /\ arg_time_idx >= 1 /\ RainInputsAgree) =>
    LET cn == RainNow("RAINC").data
        nn == RainNow("RAINNC").data
        cp == RainPrev("RAINC").data
        np == RainPrev("RAINNC").data
    IN  /\ ~hourly_rain.none
        /\ Shape(hourly_rain.data) = Shape(cn)
        /\ \A i \in 1..Len(cn) : \A j \in 1..Len(cn[i]) :
             IF cn[i][j].k = "num" /\ nn[i][j].k = "num" /\ cp[i][j].k = "num" /\ np[i][j].k = "num"
             THEN hourly_rain.data[i][j] =
                    [k |-> "num", v |-> (cn[i][j].v + nn[i][j].v) - (cp[i][j].v + np[i][j].v)]
             ELSE hourly_rain.data[i][j].k = "nan"

C16_Witness ==
  /\ pc = "total_rain_done"
  /\ arg_time_idx >= 1
  /\ RainInputsAgree
  /\ \E j \in 1..GridCols : hourly_rain.data[1][j].k = "num" /\ hourly_rain.data[1][j].v > 0
  /\ \E j \in 1..GridCols : hourly_rain.data[1][j].k = "nan"

\* C17: the returned TOTAL_RAIN field was cleaned under the rain range [0, 1000]:
\* it holds no difference outside that range, in particular no negative amount
C17_RainRangeApplied ==
  (pc = "total_rain_done" /\ ~returned.none) =>
    \A i \in 1..Len(returned.data) : \A j \in 1..Len(returned.data[i]) :
      returned.data[i][j].k = "num" =>
        (0 <= returned.data[i][j].v /\ returned.data[i][j].v <= 1000 * 1000)

\* C18: for t >= 1, when one of RAINC and RAINNC at t and at t-1 is absent, or
\* the four fields do not have one shape, calculate_total_rain returns no data
C18_NoRainWithoutAllInputs ==
  (pc = "total_rain_done" /\ arg_time_idx >= 1 /\ ~RainInputsAgree) => returned = NoData

C18_Witness ==
  /\ pc = "total_rain_done"
  /\ arg_time_idx >= 1
  /\ ~RainNow("RAINC").none /\ ~RainNow("RAINNC").none
  /\ ~RainPrev("RAINC").none /\ ~RainPrev("RAINNC").none
  /\ Shape(RainNow("RAINC").data) # Shape(RainNow("RAINNC").data)
  /\ returned = NoData

\* the cleaned slices calculate_relative_humidity works on
RhInput(name) == extract_var_slice(dataset, name, arg_time_idx, 0, FALSE)
\* the numbers of the humidity field
HumidityValues ==
  LET q == RhInput("QVAPOR").data
  IN  {q[rc[1]][rc[2]].v :
         rc \in {x \in (1..Len(q)) \X (1..GridCols) :
                   x[2] <= Len(q[x[1]]) /\ q[x[1]][x[2]].k = "num"}}
Lowest(S) == CHOOSE m \in S : \A y \in S : m <= y
Highest(S) == CHOOSE m \in S : \A y \in S : y <= m

\* C19: with specific humidity present and temperature or pressure absent, the
\* result is 100 * (q - min) / (max - min) over the humidity field's own minimum
\* and maximum (min -> 0, max -> 100, midpoint -> 50), and no data when min = max
C19_FallbackRescale ==
  (/\ pc = "relative_humidity_done"
   /\ ~RhInput("QVAPOR").none
   /\ (RhInput("T2").none \/ RhInput("PSFC").none)) =>
    LET q == RhInput("QVAPOR").data
        S == HumidityValues
    IN  IF S # {} /\ Lowest(S) < Highest(S)
        THEN /\ ~returned.none
             /\ Shape(returned.data) = Shape(q)
             /\ \A i \in 1..Len(q) : \A j \in 1..Len(q[i]) :
                  IF q[i][j].k = "num"
                  THEN /\ returned.data[i][j].k = "num"
                       /\ returned.data[i][j].v =
                            (100 * 1000 * (q[i][j].v - Lowest(S))) \div (Highest(S) - Lowest(S))
                       /\ q[i][j].v = Lowest(S) => returned.data[i][j].v = 0
                       /\ q[i][j].v = Highest(S) => returned.data[i][j].v = 100 * 1000
                       /\ 2 * q[i][j].v = Lowest(S) + Highest(S) =>
                            returned.data[i][j].v = 50 * 1000
                  ELSE returned.data[i][j].k = "nan"
        ELSE returned = NoData

C19_Witness ==
  /\ pc = "relative_humidity_done"
  /\ ~RhInput("QVAPOR").none
  /\ RhInput("T2").none
  /\ ~returned.none
  /\ \E j \in 1..GridCols : returned.data[1][j] = Num(0)
  /\ \E j \in 1..GridCols : returned.data[1][j] = Num(50000)
  /\ \E j \in 1..GridCols : returned.data[1][j] = Num(100000)

\* C20: get_time_info returns as hour indices the raw time values divided by 60
\* (integer division), or <<0>> when XTIME is absent or unreadable; timestamps,
\* when returned, are as many as the hour indices: the first rows of Times when
\* it has more rows, None when it has fewer
C20_TimeAxis ==
  (pc = "time_info_done") =>
    /\ returned.times =
         (IF dataset.xtime = "ok"
          THEN [i \in 1..dataset.ntime |-> XtimeRaw(dataset, i - 1) \div 60]
          ELSE <<0>>)
    /\ ~returned.timestamps.none =>
         /\ Len(returned.timestamps.list) = Len(returned.times)
         /\ \A i \in 1..Len(returned.timestamps.list) :
              returned.timestamps.list[i] = StampRow(dataset, i - 1)
    /\ (dataset.stamps # "absent" /\ TimesRows(dataset) < Len(returned.times)) =>
         returned.timestamps.none

\* extracting, deriving or quantizing the variable at global index g fails or
\* yields no data
BadVariable(name, g) ==
  LET raw == get_variable_data(dataset, name, g)
  IN  \/ raw.none
      \/ raw.rank \notin {2, 3}
      \/ raw.rank = 3 /\ Len(raw.data) = 0
      \/ MissingAtValidPoints(name, g)
      \/ OutOfBounds(IF raw.rank = 3 THEN raw.data[1] ELSE raw.data, valid_indices)

\* C21: a variable that fails or has no data at a time step is left out of that
\* step's variables map, every other variable of the step is in it, the step's
\* entry is appended all the same, and every batch of the run is still attempted
C21_BadVariableOnlySkipsItself ==
  /\ \A B \in RunBatches :
       /\ Len(B.time_series) = ActualBatchSize(B.metadata.batch_number - 1)
       /\ \A e \in 1..Len(B.time_series) : \A n \in 1..Len(VARIABLES_TO_PROCESS) :
            (VARIABLES_TO_PROCESS[n] \in DOMAIN B.time_series[e].variables)
              <=> ~BadVariable(VARIABLES_TO_PROCESS[n], GlobalIdx(B, e))
  /\ pc = "summary" => Len(attempts) = CeilDiv5(Len(times))

C21_Witness ==
  /\ pc = "save"
  /\ \E B \in RunBatches : \E e \in 1..Len(B.time_series) :
       \E n \in 1..Len(VARIABLES_TO_PROCESS) : \E m \in 1..Len(VARIABLES_TO_PROCESS) :
         /\ n < m
         /\ e < Len(B.time_series)
         /\ BadVariable(VARIABLES_TO_PROCESS[n], GlobalIdx(B, e))
         /\ VARIABLES_TO_PROCESS[m] \in DOMAIN B.time_series[e].variables
         /\ DOMAIN B.time_series[e + 1].variables # {}
         /\ B.metadata.batch_number < total_batches

\* the batch under construction or about to be serialized
BatchInHand == IF pc \in {"steps", "save"} THEN {batch_data_structure} ELSE {}

\* the two timestamp fields of a batch's metadata are what the claim names
TimestampBounds(B) ==
  IF Truthy(timestamps)
  THEN /\ B.metadata.initial_timestamp = timestamps.list[1]
       /\ B.metadata.final_timestamp = timestamps.list[Len(timestamps.list)]
  ELSE /\ B.metadata.initial_timestamp = HourLabel(times[1])
       /\ B.metadata.final_timestamp = HourLabel(times[Len(times)])

\* C22: every batch carries the first and the last timestamp string when there
\* are timestamps and the labels hour_<first index>, hour_<last index> when there
\* are none; a run with time steps but no timestamps does get to build batches
C22_TimestampBoundsOrHourLabels ==
  /\ \A B \in BatchInHand : TimestampBounds(B)
  /\ (Processed /\ ~Truthy(timestamps) /\ Len(times) > 0) => Len(attempts) > 0

\* d is the plane of var_name stored at (t, l), cell by cell, each cell cleaned
IsCleanedPlane(d, var_name, t, l) ==
  /\ Len(d) = VarRows(dataset, var_name)
  /\ \A i \in 1..Len(d) :
       /\ Len(d[i]) = VarCols(dataset, var_name)
       /\ \A j \in 1..Len(d[i]) :
            d[i][j] = CleanCell(RawCell(dataset, var_name, t, l, i, j), var_name)

\* C23: extract_var_slice returns no data for an absent variable and for a rank
\* other than 2, 3, 4; for rank 4 the cleaned plane at (time_idx, surface_level),
\* or the cleaned stack of all levels at time_idx when all_levels is set; for
\* rank 3 the cleaned plane at time_idx; for rank 2 the cleaned static field
\* whatever time_idx is; an index outside the variable gives no data, not an error
C23_SliceByRank ==
  pc = "extract_var_slice_done" =>
    LET v == arg_var_name
        t == arg_time_idx
        rank == IF HasVar(dataset, v) THEN VarRank(dataset, v) ELSE 0
    IN  /\ returned.none \/ returned.rank \in {2, 3}
        /\ rank \notin {2, 3, 4} => returned.none
        /\ (rank \in {3, 4} /\ t >= dataset.ntime) => returned.none
        /\ (rank = 4 /\ ~arg_all_levels /\ arg_surface_level >= VarLevels(dataset, v))
             => returned.none
        /\ (rank = 4 /\ t < dataset.ntime /\ arg_all_levels) =>
             /\ ~returned.none /\ returned.rank = 3
             /\ Len(returned.data) = VarLevels(dataset, v)
             /\ \A l \in 1..Len(returned.data) : IsCleanedPlane(returned.data[l], v, t, l - 1)
        /\ (rank = 4 /\ t < dataset.ntime /\ ~arg_all_levels
              /\ arg_surface_level < VarLevels(dataset, v)) =>
             /\ ~returned.none /\ returned.rank = 2
             /\ IsCleanedPlane(returned.data, v, t, arg_surface_level)
        /\ (rank = 3 /\ t < dataset.ntime) =>
             /\ ~returned.none /\ returned.rank = 2
             /\ IsCleanedPlane(returned.data, v, t, 0)
        /\ rank = 2 =>
             /\ ~returned.none /\ returned.rank = 2
             /\ IsCleanedPlane(returned.data, v, 0, 0)

\* a rank-4 variable read at its second level, where cleaning changed a cell
C23_Witness ==
  /\ pc = "extract_var_slice_done"
  /\ HasVar(dataset, arg_var_name) /\ VarRank(dataset, arg_var_name) = 4
  /\ ~arg_all_levels /\ arg_surface_level = 1 /\ arg_time_idx >= 1
  /\ ~returned.none
  /\ \E i \in 1..Len(returned.data) : \E j \in 1..Len(returned.data[i]) :
       /\ isnan(returned.data[i][j])
       /\ ~isnan(RawCell(dataset, arg_var_name, arg_time_idx, 1, i, j))

\* every cell of the plane is missing
EntirelyMissing(d) == \A i \in 1..Len(d) : \A j \in 1..Len(d[i]) : d[i][j].k = "nan"
\* the three inputs are present
RhInputsPresent == ~RhInput("QVAPOR").none /\ ~RhInput("T2").none /\ ~RhInput("PSFC").none
\* the formula has a value at no cell: one of its three operands is missing there
RhMissingEverywhere ==
  LET q == RhInput("QVAPOR").data
      t == RhInput("T2").data
      p == RhInput("PSFC").data
  IN  /\ Shape(q) = Shape(t) /\ Shape(q) = Shape(p)
      /\ \A i \in 1..Len(q) : \A j \in 1..Len(q[i]) :
           q[i][j].k = "nan" \/ t[i][j].k = "nan" \/ p[i][j].k = "nan"

\* C24: calculate_relative_humidity returns no data when QVAPOR is absent, and,
\* with QVAPOR, T2 and PSFC all present, when one of them is missing at every
\* cell or the computed field is; each cell of a field it returns is missing or
\* lies between 0 and 100 percent
C24_HumidityWithinPercent ==
  pc = "relative_humidity_done" =>
    /\ RhInput("QVAPOR").none => returned.none
    /\ RhInputsPresent =>
         /\ (\E name \in {"QVAPOR", "T2", "PSFC"} : EntirelyMissing(RhInput(name).data))
              => returned.none
         /\ RhMissingEverywhere => returned.none
    /\ ~returned.none =>
         \A i \in 1..Len(returned.data) : \A j \in 1..Len(returned.data[i]) :
           \/ returned.data[i][j].k = "nan"
           \/ /\ returned.data[i][j].k = "num"
              /\ returned.data[i][j].v >= 0
              /\ returned.data[i][j].v <= 100 * 1000

\* the full formula ran, one cell was clamped at 100 and one is missing
C24_Witness ==
  /\ pc = "relative_humidity_done"
  /\ RhInputsPresent
  /\ ~returned.none
  /\ \E j \in 1..GridCols : returned.data[1][j] = Num(100 * 1000)
  /\ \E j \in 1..GridCols : returned.data[1][j].k = "nan"

\* extract_var_slice(dataset, 'XLAT', 0) or extract_var_slice(dataset, 'XLONG', 0) is None
LatLongMissing ==
  \/ extract_var_slice(dataset, "XLAT", 0, 0, FALSE).none
  \/ extract_var_slice(dataset, "XLONG", 0, 0, FALSE).none
\* the folders of data/ are as an earlier run left them, or there are none
DiskUntouched ==
  /\ DOMAIN disk \in {{}, FolderNames}
  /\ \A folder \in DOMAIN disk : disk[folder] = OldFolder

\* C25: when XLAT or XLONG cannot be extracted, the run ends at the lat/long
\* test: no output folder is chosen, no batch is attempted, no summary is written
\* and every folder an earlier run left is still there with its files unchanged
C25_NoAxesNoOutput ==
  (pc \notin {"main", "opened"} /\ outcome # "RuntimeError" /\ LatLongMissing) =>
    /\ pc = "done" /\ outcome = "latlong_missing"
    /\ ~Started
    /\ attempts = <<>> /\ summary_written = "no"
    /\ total_files_created = 0
    /\ DiskUntouched

\* XLONG is absent, XLAT is not, and an earlier run's folder for today's date
\* is on disk when the run ends
C25_Witness ==
  /\ pc = "done" /\ outcome = "latlong_missing"
  /\ dataset.geo = "nolon" /\ dataset.ntime > 0
  /\ ~lats.none /\ lons.none
  /\ CurrentDate \in DOMAIN disk
  /\ SummaryFileName \in DOMAIN disk[CurrentDate]

\* the global indices of batch k (1-based): those of 0..n-1 whose quotient by 5 is k - 1
IndicesOf(k) == {g \in 0..(Len(times) - 1) : g \div 5 = k - 1}
LoopOver == pc \in {"summary", "report", "done", "fatal"}

\* the batch in hand is batch number (flushes so far) + 1 and holds, in ascending
\* order, one entry per global index of its window, each with that index's hour;
\* every flush so far was of the batch of its rank with its window's size; when
\* the loop is over there were ceil(n / 5) flushes
PartitionSoFar ==
  /\ \A B \in RunBatches :
       LET k == B.metadata.batch_number
       IN  /\ k = Len(attempts) + 1
           /\ Len(B.time_series) = Cardinality(IndicesOf(k))
           /\ Len(B.time_series) \in 1..5
           /\ \A e \in 1..Len(B.time_series) :
                /\ 5 * (k - 1) + (e - 1) \in IndicesOf(k)
                /\ B.time_series[e].time = times[5 * (k - 1) + (e - 1) + 1]
  /\ \A i \in 1..Len(attempts) :
       /\ attempts[i].batch_number = i
       /\ attempts[i].entries = Cardinality(IndicesOf(i))
       /\ IndicesOf(i) # {}
  /\ (Started /\ LoopOver) =>
       /\ Len(attempts) = CeilDiv5(Len(times))
       /\ UNION {IndicesOf(i) : i \in 1..Len(attempts)} = 0..(Len(times) - 1)

\* the time steps appended so far
StepsDone ==
  IF pc \in {"steps", "save"} THEN 5 * batch_idx + Len(batch_data_structure.time_series)
  ELSE IF 5 * batch_idx < Len(times) THEN 5 * batch_idx ELSE Len(times)
\* what the loop still has to do: time steps to append, batches to open and to flush
WorkLeft ==
  (Len(times) - StepsDone) + 2 * (CeilDiv5(Len(times)) - Len(attempts))
    - (IF pc \in {"steps", "save"} THEN 1 ELSE 0)
InLoop == Started /\ ~LoopOver
\* the guard of the step the loop is at holds: the loop is never stuck
CanStep ==
  \/ pc = "batch" /\ batch_idx < total_batches
  \/ pc = "steps" /\ Len(batch_data_structure.time_series) < ActualBatchSize(batch_idx)
  \/ pc = "save"

\* C26: once entered, the batch loop ends, after exactly ceil(n / 5) flushes:
\* while it runs a step is always possible and every step leaves less to do;
\* batch k holds exactly the global indices 5(k-1) .. min(5k, n)-1 in ascending
\* order, between 1 and 5 of them, every index 0..n-1 is in exactly one batch
\* once, and each entry's time is the hour index at its global position
C26_LoopPartitionsTimesteps ==
  /\ []PartitionSoFar
  /\ [](InLoop => (WorkLeft > 0 /\ CanStep))
  /\ [][InLoop => (WorkLeft' < WorkLeft /\ WorkLeft' >= 0)]_vars

\* the third and last batch of an 11-step run holds the one entry of index 10,
\* and the second batch was flushed with its five entries
C26_Witness ==
  /\ pc = "save"
  /\ Len(times) = 11
  /\ batch_data_structure.metadata.batch_number = 3
  /\ Len(batch_data_structure.time_series) = 1
  /\ batch_data_structure.time_series[1].time = times[11]
  /\ Len(attempts) = 2 /\ attempts[2].entries = 5

\* the rain accumulated at global index g, read from the dataset: RAINC + RAINNC
RainField(g, i, j) ==
  AddCell(CleanCell(RawCell(dataset, "RAINC", g, 0, i, j), "RAINC"),
          CleanCell(RawCell(dataset, "RAINNC", g, 0, i, j), "RAINNC"))
\* the cleaned difference between global index g and global index g - 1
RainSince(g, i, j) == CleanCell(SubCell(RainField(g, i, j), RainField(g - 1, i, j)), "HOURLY_RAIN")
\* RAINC and RAINNC are stored per time step on the whole grid
RainStored ==
  \A name \in {"RAINC", "RAINNC"} :
    /\ HasVar(dataset, name) /\ VarRank(dataset, name) = 3
    /\ VarRows(dataset, name) = GridRows /\ VarCols(dataset, name) = GridCols

\* C27: TOTAL_RAIN has no value at global index 0; at every later global index g,
\* the first step of a later batch included, its array is the quantized difference
\* between the rain fields the dataset holds at g and at g - 1, whatever batch
\* g - 1 belongs to
C27_RainAgainstGlobalPrevious ==
  \A B \in RunBatches : \A e \in 1..Len(B.time_series) :
    LET g == 5 * (B.metadata.batch_number - 1) + (e - 1)
        variables == B.time_series[e].variables
    IN  /\ g = 0 => "TOTAL_RAIN" \notin DOMAIN variables
        /\ (g >= 1 /\ RainStored) =>
             IF \E n \in 1..Len(valid_indices) :
                  ~isnan(RainSince(g, valid_indices[n][1], valid_indices[n][2]))
             THEN /\ "TOTAL_RAIN" \in DOMAIN variables
                  /\ Len(variables["TOTAL_RAIN"]) = Len(valid_indices)
                  /\ \A n \in 1..Len(valid_indices) :
                       variables["TOTAL_RAIN"][n] =
                         QuantizeCell(RainSince(g, valid_indices[n][1], valid_indices[n][2]),
                                      "TOTAL_RAIN")
             ELSE "TOTAL_RAIN" \notin DOMAIN variables

\* the third batch starts, at global index 10, with a TOTAL_RAIN array holding a
\* value, and the first batch, saved, has none at its first step and one later
C27_Witness ==
  /\ pc = "save"
  /\ batch_data_structure.metadata.batch_number = 3
  /\ "TOTAL_RAIN" \in DOMAIN batch_data_structure.time_series[1].variables
  /\ \E n \in 1..Len(valid_indices) :
       batch_data_structure.time_series[1].variables["TOTAL_RAIN"][n]
         # SentinelOf(MetaOf("TOTAL_RAIN").dtype)
  /\ BatchFileName(1) \in SavedFiles
  /\ LET first == disk[output_dir][BatchFileName(1)].content.time_series
     IN  /\ "TOTAL_RAIN" \notin DOMAIN first[1].variables
         /\ \E e \in 2..5 : "TOTAL_RAIN" \in DOMAIN first[e].variables

\* C28: a call of process_compressed_weather_data that got to the summary returns
\* its two counters and does not raise, also when no batch file was saved
C28_ReturnsAfterSummary ==
  (Started /\ Ended) => (pc = "done" /\ outcome = "returned")

====
